---- MODULE Spec2Model ----
(***************************************************************************)
(* Model of tool/analyze_packages.py: run `dart analyze --fatal-infos` on  *)
(* every sub-package of packages/, skipping the names listed in            *)
(* .dart_analyze_skip, and fold the results into one exit code.            *)
(*                                                                         *)
(* Text (package names, lines of the skip file, printed lines) is a        *)
(* sequence of code points, so that str.strip, str.startswith, str.join    *)
(* and the ordering used by sorted() are computed as Python computes them. *)
(***************************************************************************)
EXTENDS Integers, Sequences, FiniteSets, TLC

VARIABLES
    osEnviron,    \* os.environ of the process: variable name -> value
    skipFile,     \* <repo root>/.dart_analyze_skip: [state, lines]
    packagesDir,  \* <repo root>/packages: [listable, entries, manifests]
    pc,           \* position of main()
    env,          \* the mapping built at line 31
    skip,         \* the set returned by _load_skip_list
    names,        \* sorted(os.listdir(packages_dir))
    idx,          \* position of the for loop in names
    failed,       \* the failed tally
    skipped,      \* the skipped tally
    out,          \* lines printed so far, in order: [stream, prefix, body, suffix]
    rc,           \* value returned by main(); NoValue before it returns
    procs,        \* analyzer child processes: package name -> [status, willExit, code]
    calls,        \* every subprocess.run call that launched a child: [pkg, argv, env]
    completed,    \* every subprocess.run call that returned: [pkg, code]
    faultAt       \* where an unhandled exception ended the run; NoValue if none

vars == <<osEnviron, skipFile, packagesDir, pc, env, skip, names, idx, failed,
          skipped, out, rc, procs, calls, completed, faultAt>>

inputs == <<osEnviron, skipFile, packagesDir>>

NoValue == "none"

\* ------------------------------------------------------------------ bounds

\* Number of candidate directory names under packages/.
MaxPkgs == 3
\* Largest analyzer exit code; -1 (killed by a signal) is always possible.
MaxExitCode == 1
\* Lines of the skip file, and characters of a line before its newline.
MaxLines == 2
MaxLineLen == 2

\* ------------------------------------------------------------------ text

\* "#", which opens a comment line of the skip file.
Hash == 35

\* What str.strip() with no argument removes (the ASCII part of str.isspace).
Whitespace == {9, 10, 11, 12, 13, 28, 29, 30, 31, 32}

\* "a", "b", "aa", "ab", "ba", ...: the i-th name over the letters a and b.
\* Numeric order and lexicographic order differ (3 = "aa" sorts before 2 = "b").
RECURSIVE NameOf(_)
NameOf(i) ==
    IF i = 0 THEN <<>>
    ELSE NameOf((i - 1) \div 2) \o <<97 + ((i - 1) % 2)>>

PkgNames == {NameOf(i) : i \in 1..MaxPkgs}

\* str.lstrip / str.rstrip / str.strip
RECURSIVE LStrip(_)
LStrip(s) ==
    IF s # <<>> /\ Head(s) \in Whitespace THEN LStrip(Tail(s)) ELSE s

RECURSIVE RStrip(_)
RStrip(s) ==
    IF s # <<>> /\ s[Len(s)] \in Whitespace
    THEN RStrip(SubSeq(s, 1, Len(s) - 1))
    ELSE s

StripLeftOnly(s) == LStrip(s)

Strip(s) == RStrip(LStrip(s))

\* stripped.startswith("#")
StartsWithHash(s) == s # <<>> /\ s[1] = Hash

\* ", ".join(xs)
RECURSIVE Join(_)
Join(xs) ==
    IF xs = <<>> THEN <<>>
    ELSE IF Len(xs) = 1 THEN xs[1]
    ELSE xs[1] \o <<44, 32>> \o Join(Tail(xs))

\* str.__lt__: comparison by code point, a proper prefix sorting first.
LexLess(s, t) ==
    \E k \in 0..Len(s) :
        /\ k <= Len(t)
        /\ \A i \in 1..k : s[i] = t[i]
        /\ \/ (k = Len(s) /\ k < Len(t))
           \/ (k < Len(s) /\ k < Len(t) /\ s[k + 1] < t[k + 1])

\* The order os.listdir happens to return when nothing sorts it: here the
\* order of creation, shorter names first.
RECURSIVE Unsorted(_)
Unsorted(S) ==
    IF S = {} THEN <<>>
    ELSE LET m == CHOOSE x \in S : \A y \in S \ {x} :
                      Len(x) < Len(y) \/ (Len(x) = Len(y) /\ LexLess(x, y))
         IN <<m>> \o Unsorted(S \ {m})

\* sorted(S) for a collection of distinct strings
RECURSIVE Sorted(_)
Sorted(S) ==
    IF S = {} THEN <<>>
    ELSE LET m == CHOOSE x \in S : \A y \in S \ {x} : LexLess(x, y)
         IN <<m>> \o Sorted(S \ {m})

\* ------------------------------------------------------------------ inputs

\* Variables of the process environment; the first two are set by git hooks.
EnvKeys == {"GIT_DIR", "GIT_WORK_TREE", "PATH"}
EnvValue(k) == IF k = "PATH" THEN "/usr/bin" ELSE "/other/checkout"
Environs == {[k \in K |-> EnvValue(k)] : K \in SUBSET EnvKeys}

\* A line as iteration over the file yields it: its characters, then "\n".
LineChars == {32, Hash, 97}
LineBodies == UNION {[1..n -> LineChars] : n \in 0..MaxLineLen}
Lines == {b \o <<10>> : b \in LineBodies}
AllFiles == UNION {[1..n -> Lines] : n \in 0..MaxLines}

\* Skip files of a maintained repository: a comment, then one indented name
\* per line.
RECURSIVE NameLines(_)
NameLines(S) ==
    IF S = {} THEN <<>>
    ELSE LET m == CHOOSE x \in S : \A y \in S \ {x} : LexLess(y, x)
         IN <<<<32>> \o m \o <<10>>>> \o NameLines(S \ {m})
NameFiles == {<<<<Hash, 32, 97, 10>>>> \o NameLines(S) : S \in SUBSET PkgNames}

SkipFileStates(files) ==
    {[state |-> "absent", lines |-> <<>>], [state |-> "unreadable", lines |-> <<>>]}
    \cup {[state |-> "file", lines |-> f] : f \in files}

\* packages/: missing or unreadable, or a directory whose entries are names
\* of PkgNames, some of them holding a file pubspec.yaml.
PackagesDirs ==
    {[listable |-> FALSE, entries |-> {}, manifests |-> {}]}
    \cup UNION {{[listable |-> TRUE, entries |-> E, manifests |-> M] :
                    M \in SUBSET E} : E \in SUBSET PkgNames}

ExitCodes == (-1)..MaxExitCode

\* ------------------------------------------------------------------ helpers

\* The mapping of line 31 built without filtering anything.
KeepEnv(e) == e

\* {k: v for k, v in os.environ.items() if k not in ("GIT_DIR", "GIT_WORK_TREE")}
CleanEnv(e) == [k \in DOMAIN e \ {"GIT_DIR", "GIT_WORK_TREE"} |-> e[k]]

\* The loop of _load_skip_list over the lines of the file.
RECURSIVE SkipNames(_)
SkipNames(lines) ==
    IF lines = <<>> THEN {}
    ELSE LET stripped == Strip(Head(lines))
         IN (IF stripped # <<>> /\ ~StartsWithHash(stripped) THEN {stripped} ELSE {})
            \cup SkipNames(Tail(lines))

\* os.path.isfile(os.path.join(pkg_path, "pubspec.yaml"))
HasManifest(name) == name \in packagesDir.manifests

\* Line 45 with the test never succeeding.
IsSkippedNever(name) == FALSE

\* name in skip
IsSkipped(name) == name \in skip

\* The package the loop is at.
cur == names[idx]

InLoop == pc = "loop" /\ idx <= Len(names)

\* print(f"{prefix}{body}{suffix}", file=stream)
Emit(stream, prefix, body, suffix) ==
    Append(out, [stream |-> stream, prefix |-> prefix, body |-> body, suffix |-> suffix])

Raise(where) == pc' = "fault" /\ faultAt' = where

\* ------------------------------------------------------------------ the run

InitRun ==
    /\ pc = "start"
    /\ env = NoValue
    /\ skip = {}
    /\ names = <<>>
    /\ idx = 1
    /\ failed = <<>>
    /\ skipped = <<>>
    /\ out = <<>>
    /\ rc = NoValue
    /\ procs = <<>>
    /\ calls = <<>>
    /\ completed = <<>>
    /\ faultAt = NoValue

Init ==
    /\ osEnviron \in Environs
    /\ skipFile \in SkipFileStates(NameFiles)
    /\ packagesDir \in PackagesDirs
    /\ InitRun

\* Line 31: the environment of the analyzers.
BuildEnv ==
    /\ pc = "start"
    /\ env' = CleanEnv(osEnviron)
    /\ pc' = "load_skip"
    /\ UNCHANGED <<inputs, skip, names, idx, failed, skipped, out, rc, procs,
                   calls, completed, faultAt>>

\* Line 37, _load_skip_list: no file is no skips; a file that cannot be
\* opened makes open() raise, which nothing catches.
LoadSkip ==
    /\ pc = "load_skip"
    /\ \/ /\ skipFile.state = "absent"
          /\ skip' = {}
          /\ pc' = "list"
          /\ UNCHANGED faultAt
       \/ /\ skipFile.state = "file"
          /\ skip' = SkipNames(skipFile.lines)
          /\ pc' = "list"
          /\ UNCHANGED faultAt
       \/ /\ skipFile.state = "unreadable"
          /\ Raise("skip_file")
          /\ UNCHANGED skip
    /\ UNCHANGED <<inputs, env, names, idx, failed, skipped, out, rc, procs,
                   calls, completed>>

\* Lines 39-41 with a directory that cannot be listed taken for an empty one.
ListPackagesLenient ==
    /\ pc = "list"
    /\ names' = IF packagesDir.listable THEN Sorted(packagesDir.entries) ELSE <<>>
    /\ idx' = 1
    /\ failed' = <<>>
    /\ skipped' = <<>>
    /\ pc' = "loop"
    /\ UNCHANGED <<inputs, env, skip, out, rc, procs, calls, completed, faultAt>>

\* Lines 39-41: the tallies, and sorted(os.listdir(packages_dir)); os.listdir
\* raises when the directory is missing or unreadable.
ListPackages ==
    /\ pc = "list"
    /\ \/ /\ packagesDir.listable
          /\ names' = Sorted(packagesDir.entries)
          /\ idx' = 1
          /\ failed' = <<>>
          /\ skipped' = <<>>
          /\ pc' = "loop"
          /\ UNCHANGED faultAt
       \/ /\ ~packagesDir.listable
          /\ Raise("packages_dir")
          /\ UNCHANGED <<names, idx, failed, skipped>>
    /\ UNCHANGED <<inputs, env, skip, out, rc, procs, calls, completed>>

\* Lines 43-44: no pubspec.yaml, next entry.
NoManifest ==
    /\ InLoop
    /\ ~HasManifest(cur)
    /\ idx' = idx + 1
    /\ UNCHANGED <<inputs, pc, env, skip, names, failed, skipped, out, rc, procs,
                   calls, completed, faultAt>>

\* Lines 45-47 reached before the test of lines 43-44.
SkipBeforeManifest ==
    /\ InLoop
    /\ IsSkipped(cur)
    /\ skipped' = Append(skipped, cur)
    /\ idx' = idx + 1
    /\ UNCHANGED <<inputs, pc, env, skip, names, failed, out, rc, procs, calls,
                   completed, faultAt>>

\* Lines 45-47: a name of the skip set is tallied, next entry.
SkipPackage ==
    /\ InLoop
    /\ HasManifest(cur)
    /\ IsSkipped(cur)
    /\ skipped' = Append(skipped, cur)
    /\ idx' = idx + 1
    /\ UNCHANGED <<inputs, pc, env, skip, names, failed, out, rc, procs, calls,
                   completed, faultAt>>

\* Lines 48-52 with the wait of subprocess.run left out: the child is started
\* and the loop goes on.
StartWithoutWaiting ==
    /\ InLoop
    /\ HasManifest(cur)
    /\ ~IsSkipped(cur)
    /\ out' = Emit("stdout", "Analyzing ", cur, "...")
    /\ \E h \in BOOLEAN :
          procs' = (cur :> [status |-> "running", willExit |-> h, code |-> 0]) @@ procs
    /\ calls' = Append(calls, [pkg |-> cur,
                               argv |-> <<"dart", "analyze", "--fatal-infos", cur>>,
                               env |-> env])
    /\ idx' = idx + 1
    /\ UNCHANGED <<inputs, pc, env, skip, names, failed, skipped, rc, completed, faultAt>>

\* Lines 48-52, first half of subprocess.run: the progress line, then the
\* child is started with the prepared environment. Starting it raises when
\* the dart executable cannot be run; a child that is started either exits
\* at some time or never does.
StartAnalyzer ==
    /\ InLoop
    /\ HasManifest(cur)
    /\ ~IsSkipped(cur)
    /\ out' = Emit("stdout", "Analyzing ", cur, "...")
    /\ \/ /\ \E h \in BOOLEAN :
                procs' = (cur :> [status |-> "running", willExit |-> h, code |-> 0]) @@ procs
          /\ calls' = Append(calls, [pkg |-> cur,
                                     argv |-> <<"dart", "analyze", "--fatal-infos", cur>>,
                                     env |-> env])
          /\ pc' = "wait"
          /\ UNCHANGED faultAt
       \/ /\ Raise("subprocess")
          /\ UNCHANGED <<procs, calls>>
    /\ UNCHANGED <<inputs, env, skip, names, idx, failed, skipped, rc, completed>>

\* The analyzer of package n exits with code c.
ChildExit(n, c) ==
    /\ n \in DOMAIN procs
    /\ procs[n].status = "running"
    /\ procs[n].willExit
    /\ procs' = [procs EXCEPT ![n] = [@ EXCEPT !.status = "exited", !.code = c]]
    /\ UNCHANGED <<inputs, pc, env, skip, names, idx, failed, skipped, out, rc,
                   calls, completed, faultAt>>

\* Lines 53-54 with a failure ending the loop.
AwaitAnalyzerStopOnFailure ==
    /\ pc = "wait"
    /\ procs[cur].status = "exited"
    /\ procs' = [procs EXCEPT ![cur].status = "reaped"]
    /\ completed' = Append(completed, [pkg |-> cur, code |-> procs[cur].code])
    /\ failed' = IF procs[cur].code # 0 THEN Append(failed, cur) ELSE failed
    /\ idx' = idx + 1
    /\ pc' = IF procs[cur].code # 0 THEN "report_skipped" ELSE "loop"
    /\ UNCHANGED <<inputs, env, skip, names, skipped, out, rc, calls, faultAt>>

\* Lines 53-54 with only exit code 1 taken for a failure.
AwaitAnalyzerOnlyOne ==
    /\ pc = "wait"
    /\ procs[cur].status = "exited"
    /\ procs' = [procs EXCEPT ![cur].status = "reaped"]
    /\ completed' = Append(completed, [pkg |-> cur, code |-> procs[cur].code])
    /\ failed' = IF procs[cur].code = 1 THEN Append(failed, cur) ELSE failed
    /\ idx' = idx + 1
    /\ pc' = "loop"
    /\ UNCHANGED <<inputs, env, skip, names, skipped, out, rc, calls, faultAt>>

\* Lines 49-54, second half of subprocess.run: it returns once the child has
\* exited; a non-zero return code is tallied, and the loop goes on.
AwaitAnalyzer ==
    /\ pc = "wait"
    /\ procs[cur].status = "exited"
    /\ procs' = [procs EXCEPT ![cur].status = "reaped"]
    /\ completed' = Append(completed, [pkg |-> cur, code |-> procs[cur].code])
    /\ failed' = IF procs[cur].code # 0 THEN Append(failed, cur) ELSE failed
    /\ idx' = idx + 1
    /\ pc' = "loop"
    /\ UNCHANGED <<inputs, env, skip, names, skipped, out, rc, calls, faultAt>>

\* The for loop is over.
LoopDone ==
    /\ pc = "loop"
    /\ idx > Len(names)
    /\ pc' = "report_skipped"
    /\ UNCHANGED <<inputs, env, skip, names, idx, failed, skipped, out, rc, procs,
                   calls, completed, faultAt>>

\* Lines 56-57.
ReportSkipped ==
    /\ pc = "report_skipped"
    /\ out' = IF skipped # <<>>
              THEN Emit("stdout", "Skipped: ", Join(skipped), "")
              ELSE out
    /\ pc' = "report_failed"
    /\ UNCHANGED <<inputs, env, skip, names, idx, failed, skipped, rc, procs, calls,
                   completed, faultAt>>

\* Lines 58-61 with the summary printed whatever the tally.
ReportFailedAlways ==
    /\ pc = "report_failed"
    /\ out' = Emit("stderr", "\nAnalysis failed for: ", Join(failed), "")
    /\ rc' = IF failed # <<>> THEN 1 ELSE 0
    /\ pc' = "done"
    /\ UNCHANGED <<inputs, env, skip, names, idx, failed, skipped, procs, calls,
                   completed, faultAt>>

\* Lines 58-61.
ReportFailed ==
    /\ pc = "report_failed"
    /\ out' = IF failed # <<>>
              THEN Emit("stderr", "\nAnalysis failed for: ", Join(failed), "")
              ELSE out
    /\ rc' = IF failed # <<>> THEN 1 ELSE 0
    /\ pc' = "done"
    /\ UNCHANGED <<inputs, env, skip, names, idx, failed, skipped, procs, calls,
                   completed, faultAt>>

Next ==
    \/ BuildEnv
    \/ LoadSkip
    \/ ListPackages
    \/ NoManifest
    \/ SkipPackage
    \/ StartAnalyzer
    \/ \E n \in PkgNames, c \in ExitCodes : ChildExit(n, c)
    \/ AwaitAnalyzer
    \/ LoopDone
    \/ ReportSkipped
    \/ ReportFailed

Spec == Init /\ [][Next]_vars

\* The run up to line 37 only, over every small skip file.
InitSkip ==
    /\ osEnviron = [k \in EnvKeys |-> EnvValue(k)]
    /\ skipFile \in SkipFileStates(AllFiles)
    /\ packagesDir = [listable |-> TRUE, entries |-> {}, manifests |-> {}]
    /\ InitRun

NextSkip ==
    \/ BuildEnv
    \/ LoadSkip

SkipSpec == InitSkip /\ [][NextSkip]_vars

\* The interpreter runs main() whenever it can take a step, and a child that
\* is going to exit does exit.
FairSpec == Init /\ [][Next]_vars /\ WF_vars(Next)

\* ------------------------------------------------------------------ vocabulary of the properties

Range(f) == {f[i] : i \in DOMAIN f}

\* Directories with a manifest, and those of them that are to be analyzed.
Qualifying == packagesDir.manifests
ToAnalyze == Qualifying \ skip

SkipLoaded == pc \notin {"start", "load_skip"} /\ faultAt # "skip_file"

CallsOf(n) == {i \in DOMAIN calls : calls[i].pkg = n}
CompletionsOf(n) == {i \in DOMAIN completed : completed[i].pkg = n}
InFlight == {n \in DOMAIN procs : procs[n].status # "reaped"}
HungChild == \E n \in DOMAIN procs : procs[n].status = "running" /\ ~procs[n].willExit

ProgressLines == {i \in DOMAIN out : out[i].prefix = "Analyzing "}
SkippedLines == {i \in DOMAIN out : out[i].prefix = "Skipped: "}
FailedLines == {i \in DOMAIN out : out[i].prefix = "\nAnalysis failed for: "}
ProgressOf(n) == {i \in ProgressLines : out[i].body = n}

\* The items of a comma-and-space separated list.
RECURSIVE SplitList(_, _)
SplitList(s, acc) ==
    IF s = <<>> THEN <<acc>>
    ELSE IF Len(s) >= 2 /\ s[1] = 44 /\ s[2] = 32
         THEN <<acc>> \o SplitList(SubSeq(s, 3, Len(s)), <<>>)
         ELSE SplitList(Tail(s), Append(acc, Head(s)))
Items(s) == SplitList(s, <<>>)
Occurrences(x, xs) == Cardinality({i \in DOMAIN xs : xs[i] = x})

\* ------------------------------------------------------------------ properties

\* C1: when main() returns, it returns 0 or 1, every package that has a
\* manifest and is not in the skip set has been run, and the value is 0
\* exactly when each of those analyzers exited with code 0. No other
\* package has an exit code to contribute.
C1_ExitCodeContract ==
    pc = "done" =>
        /\ rc \in {0, 1}
        /\ DOMAIN procs = ToAnalyze
        /\ \A n \in ToAnalyze : procs[n].status = "reaped"
        /\ rc = 0 <=> \A n \in ToAnalyze : procs[n].code = 0

C1_Witness ==
    /\ pc = "done"
    /\ rc = 1
    /\ skipped # <<>>
    /\ \E n, m \in ToAnalyze : procs[n].code = 0 /\ procs[m].code = -1

\* C2: a package named in the skip set is never handed to the analyzer and
\* gets no progress line, it is not in the failed tally, and once the loop
\* has passed it, it is in the skipped tally once (if it has a manifest).
\* If every package with a manifest is in the skip set, no analyzer is ever
\* started, no fault ends the run after the listing, and main() returns 0.
C2_SkippedNeverAnalyzed ==
    SkipLoaded =>
        /\ \A n \in skip :
              /\ CallsOf(n) = {}
              /\ n \notin DOMAIN procs
              /\ ProgressOf(n) = {}
              /\ Occurrences(n, failed) = 0
              /\ Occurrences(n, skipped) <= 1
              /\ Occurrences(n, skipped) = 1 => n \in Qualifying
              /\ (pc \in {"report_skipped", "report_failed", "done"} /\ n \in Qualifying)
                    => Occurrences(n, skipped) = 1
        /\ Qualifying \subseteq skip =>
              /\ calls = <<>>
              /\ procs = <<>>
              /\ faultAt # "subprocess"
              /\ pc = "done" => rc = 0

C2_Witness ==
    /\ pc = "done"
    /\ Cardinality(Qualifying) >= 2
    /\ Qualifying \subseteq skip
    /\ Len(skipped) >= 2

\* C3: when the analyzer of a package has exited, whatever its code, the
\* loop goes on with the next entry, a non-zero code adding the name to the
\* failed tally and nothing else; when main() returns, every package with a
\* manifest and outside the skip set was started once and awaited once.
C3_FailureDoesNotStop ==
    /\ [][(pc = "wait" /\ pc' # "wait") =>
            /\ pc' = "loop"
            /\ idx' = idx + 1
            /\ names' = names
            /\ failed' = IF procs[cur].code # 0 THEN Append(failed, cur) ELSE failed]_vars
    /\ [](pc = "done" =>
            /\ \A n \in ToAnalyze :
                  Cardinality(CallsOf(n)) = 1 /\ Cardinality(CompletionsOf(n)) = 1
            /\ Len(calls) = Cardinality(ToAnalyze)
            /\ Len(completed) = Cardinality(ToAnalyze))

C3_Witness ==
    /\ pc = "done"
    /\ Len(completed) >= 3
    /\ completed[1].code # 0
    /\ completed[2].code # 0

\* C4: at most one analyzer is in flight, an analyzer is started only when
\* every analyzer started before it has been awaited, and the analyzers are
\* started in increasing lexicographic order of package name.
C4_SequentialSorted ==
    /\ Cardinality(InFlight) <= 1
    /\ \A i \in DOMAIN calls :
          i < Len(calls) => procs[calls[i].pkg].status = "reaped"
    /\ \A i, j \in DOMAIN calls :
          i < j => LexLess(calls[i].pkg, calls[j].pkg)
    /\ \A i, j \in DOMAIN completed :
          i < j => LexLess(completed[i].pkg, completed[j].pkg)

C4_Witness ==
    /\ Len(calls) >= 3
    /\ Len(calls[2].pkg) > Len(calls[3].pkg)
    /\ Cardinality(InFlight) = 1

\* C5: an entry of packages/ without pubspec.yaml is never analyzed, gets no
\* progress line and is in neither tally, also when the skip set names it.
C5_NoManifestExcluded ==
    \A n \in packagesDir.entries \ packagesDir.manifests :
        /\ CallsOf(n) = {}
        /\ n \notin DOMAIN procs
        /\ ProgressOf(n) = {}
        /\ Occurrences(n, skipped) = 0
        /\ Occurrences(n, failed) = 0
        /\ \A i \in SkippedLines \cup FailedLines : Occurrences(n, Items(out[i].body)) = 0

C5_Witness ==
    /\ pc = "done"
    /\ skipped # <<>>
    /\ \E n \in packagesDir.entries \ packagesDir.manifests : n \in skip

\* C6: a summary line is printed only once the loop is over and every
\* analyzer has been awaited, the skipped summary on standard output and
\* before the failure summary on standard error; when main() returns there
\* is a failure summary exactly when the failed tally is non-empty and a
\* skipped summary exactly when the skipped tally is non-empty, each at most
\* once; the failure summary lists each package whose analyzer exited
\* non-zero exactly once and no other, and then the exit code is 1.
C6_SummaryContract ==
    /\ \A i \in SkippedLines : out[i].stream = "stdout"
    /\ \A i \in FailedLines : out[i].stream = "stderr"
    /\ \A i \in DOMAIN out : out[i].stream = "stderr" => i \in FailedLines
    /\ \A i \in SkippedLines, j \in FailedLines : i < j
    /\ \A i \in SkippedLines \cup FailedLines, j \in ProgressLines : j < i
    /\ SkippedLines \cup FailedLines # {} =>
          /\ pc \in {"report_failed", "done"}
          /\ idx > Len(names)
          /\ InFlight = {}
          /\ Len(completed) = Len(calls)
    /\ pc = "done" =>
          /\ Cardinality(FailedLines) = (IF failed # <<>> THEN 1 ELSE 0)
          /\ Cardinality(SkippedLines) = (IF skipped # <<>> THEN 1 ELSE 0)
          /\ \A i \in FailedLines :
                /\ \A n \in DOMAIN procs :
                      Occurrences(n, Items(out[i].body)) = (IF procs[n].code # 0 THEN 1 ELSE 0)
                /\ Range(Items(out[i].body)) \subseteq DOMAIN procs
                /\ rc = 1
          /\ \A i \in SkippedLines :
                \A n \in PkgNames :
                    Occurrences(n, Items(out[i].body)) = Occurrences(n, skipped)

C6_Witness ==
    /\ pc = "done"
    /\ Len(skipped) = 1
    /\ Len(failed) = 1
    /\ Len(completed) = 2
    /\ out[Len(out)].stream = "stderr"

\* C7 as stated: an unhandled fault comes only from a filesystem access
\* error under the repository root (the packages directory, or the skip
\* file beside it), before anything is run or printed; with those
\* accessible, main() never raises, whatever happens to an analyzer
\* invocation.
C7_OnlyRootFaults ==
    /\ pc = "fault" =>
          /\ faultAt \in {"packages_dir", "skip_file"}
          /\ calls = <<>>
          /\ out = <<>>
    /\ (packagesDir.listable /\ skipFile.state # "unreadable") => pc # "fault"

\* C7, amended: an unhandled fault comes from a skip file that exists and
\* cannot be opened, from a packages directory that cannot be listed, or
\* from an analyzer that cannot be started, and from nothing else. With the
\* packages directory missing or unreadable the run never gets past the
\* listing: it ends in a fault with no analyzer started and nothing
\* printed. A missing skip file is an empty skip set, and an analyzer that
\* was started never makes main() raise, whatever its exit code: main()
\* returns 0 or 1.
C7_FaultConditions ==
    /\ pc = "fault" <=> faultAt # NoValue
    /\ faultAt \in {NoValue, "skip_file", "packages_dir", "subprocess"}
    /\ faultAt = "skip_file" <=> (skipFile.state = "unreadable" /\ pc \notin {"start", "load_skip"})
    /\ faultAt = "packages_dir" => ~packagesDir.listable
    /\ faultAt \in {"skip_file", "packages_dir"} => calls = <<>> /\ out = <<>> /\ procs = <<>>
    /\ (~packagesDir.listable /\ skipFile.state # "unreadable") =>
          /\ pc \in {"start", "load_skip", "list", "fault"}
          /\ calls = <<>> /\ out = <<>> /\ procs = <<>>
    /\ (skipFile.state = "absent" /\ pc \notin {"start", "load_skip"}) =>
          skip = {} /\ faultAt # "skip_file"
    /\ faultAt = "subprocess" =>
          /\ idx <= Len(names)
          /\ names[idx] \notin DOMAIN procs
          /\ InFlight = {}
          /\ out[Len(out)].prefix = "Analyzing " /\ out[Len(out)].body = names[idx]
    /\ pc = "done" => rc \in {0, 1}

C7_Witness ==
    /\ pc = "fault"
    /\ faultAt = "subprocess"
    /\ skipFile.state = "absent"
    /\ Len(completed) >= 1
    /\ completed[1].code # 0

\* C8: once _load_skip_list has returned, the skip set is the empty set for
\* an absent file, and otherwise holds exactly the strings that are some
\* line with its leading and trailing whitespace removed, are not empty and
\* do not begin with "#".
IsTrimOf(t, line) ==
    \E i \in 1..(Len(line) + 1), j \in 0..Len(line) :
        /\ i <= j + 1
        /\ t = SubSeq(line, i, j)
        /\ \A k \in 1..(i - 1) : line[k] \in Whitespace
        /\ \A k \in (j + 1)..Len(line) : line[k] \in Whitespace
        /\ i <= j => (line[i] \notin Whitespace /\ line[j] \notin Whitespace)

Pieces(line) == {SubSeq(line, i, j) : i \in 1..(Len(line) + 1), j \in 0..Len(line)}

C8_LoadSkipListContract ==
    pc = "list" =>
        /\ faultAt = NoValue
        /\ skipFile.state = "absent" => skip = {}
        /\ skipFile.state = "file" =>
              skip = {t \in UNION {Pieces(l) : l \in Range(skipFile.lines)} :
                        /\ \E l \in Range(skipFile.lines) : IsTrimOf(t, l)
                        /\ t # <<>>
                        /\ t[1] # Hash}

C8_Witness ==
    /\ pc = "list"
    /\ skipFile.state = "file"
    /\ Len(skipFile.lines) = 2
    /\ skipFile.lines[1] = <<32, 97, 10>>
    /\ skipFile.lines[2] = <<97, 32, 10>>
    /\ skip = {<<97>>}

\* C9: from the moment it is built, the environment mapping is os.environ
\* without GIT_DIR and GIT_WORK_TREE, every other variable keeping its
\* value; every analyzer is started with that mapping; and no step changes
\* the mapping or os.environ.
IsCleaned(e) ==
    /\ DOMAIN e = DOMAIN osEnviron \ {"GIT_DIR", "GIT_WORK_TREE"}
    /\ \A k \in DOMAIN e : e[k] = osEnviron[k]

C9_EnvironmentContract ==
    /\ [](pc # "start" => IsCleaned(env))
    /\ [](\A i \in DOMAIN calls : IsCleaned(calls[i].env) /\ calls[i].env = env)
    /\ [][pc # "start" => env' = env]_vars
    /\ [][osEnviron' = osEnviron]_vars

C9_Witness ==
    /\ Len(calls) >= 2
    /\ DOMAIN osEnviron = EnvKeys
    /\ calls[1].env = calls[2].env
    /\ DOMAIN calls[2].env = {"PATH"}

====
